---- MODULE Spec2Model ----
(***************************************************************************)
(* ALSurfaceMutationPublisher: the tracker of surface mount/unmount        *)
(* notifications.  activeSurfaces is the module-level Map of open records, *)
(* processNode is the handler of both listeners and emitMutationEvent      *)
(* builds the event handed to the channel.                                 *)
(***************************************************************************)
EXTENDS Integers, Sequences, FiniteSets, TLC

VARIABLES activeSurfaces, emitted, metaHeap, eventIndex, now, lastCall,
          cacheElementReactInfo, attached

vars == <<activeSurfaces, emitted, metaHeap, eventIndex, now, lastCall,
          cacheElementReactInfo, attached>>

\* ---------------------------------------------------------------- bounds
MaxTime == 2
MaxIndex == 5
MaxEvents == 3
MaxEventsShared == 4

\* ---------------------------------------------------------------- values
\* null and undefined (an absent key) are not told apart by the code's tests.
Null == "null"
\* removeTime not set yet (undefined), and a null reference to an event.
NoTime == -1
NoEvent == 0

Surfaces == {"S1", "S2"}

\* The nodes of the document: N1 contains N2; N3 is outside N1; LNK and SCR
\* are elements the handler filters by name; TXT is a text node.
Nodes == {"N1", "N2", "N3", "LNK", "SCR", "TXT"}
Elements == {"N1", "N2", "N3"}

ParentNode(n) ==
  CASE n = "N2" -> "N1"
    [] n = "LNK" -> "N1"
    [] n = "SCR" -> "N3"
    [] n = "TXT" -> "N2"
    [] OTHER -> Null

NodeName(n) ==
  CASE n = "LNK" -> <<"L", "I", "N", "K">>
    [] n = "SCR" -> <<"S", "C", "R", "I", "P", "T">>
    [] n = "TXT" -> <<"#", "t", "e", "x", "t">>
    [] OTHER -> <<"D", "I", "V">>

InstanceofHTMLElement(n) == n \in Nodes /\ n # "TXT"

RECURSIVE Contains(_, _)
\* Node.contains: other is node itself or one of its descendants.
Contains(node, other) ==
  IF other = Null THEN FALSE
  ELSE IF other = node THEN TRUE
  ELSE Contains(node, ParentNode(other))

\* RegExp.test of an unanchored literal: the pattern occurs somewhere in s.
HasSubstring(s, pat) ==
  \E i \in 1..Len(s) :
    i + Len(pat) - 1 <= Len(s) /\ SubSeq(s, i, i + Len(pat) - 1) = pat

\* /LINK|SCRIPT/.test(element.nodeName)
LinkOrScript(n) ==
  \/ HasSubstring(NodeName(n), <<"L", "I", "N", "K">>)
  \/ HasSubstring(NodeName(n), <<"S", "C", "R", "I", "P", "T">>)

\* Mutant: the test of the surface is missing.
Trackable_AnySurface(element, surface) ==
  InstanceofHTMLElement(element) /\ ~LinkOrScript(element)

\* The two early returns of processNode passed.
Trackable(element, surface) ==
  /\ InstanceofHTMLElement(element)
  /\ ~LinkOrScript(element)
  /\ surface # Null

Flowlets == {"F1", "F2"}

FlowletParent(f) == IF f = "F2" THEN "F1" ELSE Null

RECURSIVE getFullName(_)
\* The path of the flowlet from the root of its chain.
getFullName(f) ==
  IF FlowletParent(f) = Null THEN "/" \o f
  ELSE getFullName(FlowletParent(f)) \o "/" \o f

\* The metadata objects the notifications carry (shared by reference).
MetaIds == {"M1", "M2"}

\* The flowlet the notification itself carries.
CarriedFlowlet(surface) == <<"flowlet", surface>>

\* The collaborator that throws during the call, if any.
Faults == {"none", "getElementTextEvent", "getFullName", "getNextEventIndex",
           "getOrSetAutoLoggingID"}

\* ALEventIndex.getNextEventIndex: the index after the last one served.
getNextEventIndex(index) == index + 1

getOrSetAutoLoggingID(element) == <<"alid", element>>

getReactComponentName(element) == <<"component", element>>

getElementTextEvent(element, surface) == <<"text", element, surface>>

\* ---------------------------------------------------------------- the Map
MapHas(m, k) == \E e \in m : e.key = k

MapGet(m, k) == IF MapHas(m, k) THEN (CHOOSE e \in m : e.key = k).value ELSE Null

\* Mutant: the entry is pushed without replacing the one under the same key.
MapSet_Append(m, k, v) == m \cup {[key |-> k, value |-> v]}

MapSet(m, k, v) == {e \in m : e.key # k} \cup {[key |-> k, value |-> v]}

MapDelete(m, k) == {e \in m : e.key # k}

MapKeys(m) == {e.key : e \in m}

\* ---------------------------------------------------------------- handler
NoCall ==
  [action |-> "none", surface |-> Null, element |-> Null, metadata |-> Null,
   currFlowlet |-> Null, thrown |-> Null]

NewSurfaceInfo(event, timestamp, currFlowlet, cache) ==
  [surface |-> event.surface,
   element |-> event.element,
   addTime |-> timestamp,
   removeTime |-> NoTime,
   flowlet |-> CarriedFlowlet(event.surface),
   addFlowlet |-> currFlowlet,
   reactComponentName |->
     IF cache THEN getReactComponentName(event.element) ELSE Null,
   elementText |->
     IF cache THEN getElementTextEvent(event.element, event.surface)
     ELSE getElementTextEvent(Null, event.surface),
   removeFlowlet |-> Null,
   mountEvent |-> NoEvent,
   metadata |-> event.metadata]

\* Mutant: the containment test is the wrong way round.
IsAncestorPromotion_Descendant(info, element) ==
  element # info.element /\ Contains(info.element, element)

\* Mutant: the test that the node is not the reference node is missing.
IsAncestorPromotion_OrSelf(info, element) == Contains(element, info.element)

IsAncestorPromotion(info, element) ==
  element # info.element /\ Contains(element, info.element)

\* Mutant: the promotion keeps the flowlet of the opening.
Promote_KeepAddFlowlet(info, element, timestamp, currFlowlet) ==
  [info EXCEPT !.element = element, !.addTime = timestamp]

Promote(info, element, timestamp, currFlowlet) ==
  [info EXCEPT !.element = element,
               !.addFlowlet = currFlowlet,
               !.addTime = timestamp]

\* Mutant: the lookup never finds the open record.
HasOpenRecord_Never(map, surface) == FALSE

HasOpenRecord(map, surface) == MapHas(map, surface)

\* Mutant: the removed node is not compared with the reference node.
RemoveMatches_AnyNode(map, surface, element) == MapHas(map, surface)

\* Mutant: the comparison with the reference node is inverted.
RemoveMatches_OtherNode(map, surface, element) ==
  MapHas(map, surface) /\ MapGet(map, surface).element # element

RemoveMatches(map, surface, element) ==
  MapHas(map, surface) /\ MapGet(map, surface).element = element

\* Mutant: the record is not deleted when it is closed.
CloseRecord_Keep(map, surface) == map

CloseRecord(map, surface) == MapDelete(map, surface)

\* Mutant: the closing stamp takes the flowlet of the opening, not the top.
StampRemove_AddFlowlet(info, timestamp, currFlowlet) ==
  [info EXCEPT !.removeFlowlet = info.addFlowlet, !.removeTime = timestamp]

StampRemove(info, timestamp, currFlowlet) ==
  [info EXCEPT !.removeFlowlet = currFlowlet, !.removeTime = timestamp]

\* Mutant: the operands of the subtraction are swapped.
MountedDuration_Swapped(removeTime, addTime) ==
  [num |-> addTime - removeTime, den |-> 1000]

\* (removeTime - addTime) / 1000, kept as the exact fraction.
MountedDuration(removeTime, addTime) ==
  [num |-> removeTime - addTime, den |-> 1000]

\* What the channel is handed: the event, and what a subscriber reading at that
\* moment would see: the keys of the live map and the content of the event's
\* metadata object.
Emission(data, map, heap) ==
  [data |-> data, mapKeys |-> MapKeys(map), seen |-> heap[data.metadata]]

\* Mutant: the event takes the generator's current index, not a new one.
MountEventData_StaleIndex(surfaceInfo, index) ==
  [event |-> "mount_component",
   eventTimestamp |-> surfaceInfo.addTime,
   eventIndex |-> index - 1,
   autoLoggingID |-> getOrSetAutoLoggingID(surfaceInfo.element)] @@ surfaceInfo

MountEventData(surfaceInfo, index) ==
  [event |-> "mount_component",
   eventTimestamp |-> surfaceInfo.addTime,
   eventIndex |-> index,
   autoLoggingID |-> getOrSetAutoLoggingID(surfaceInfo.element)] @@ surfaceInfo

\* Mutant: the unmount event is built without the retained mount event.
UnmountEventData_NoMountEvent(surfaceInfo, index) ==
  [event |-> "unmount_component",
   eventTimestamp |-> surfaceInfo.removeTime,
   eventIndex |-> index,
   autoLoggingID |-> getOrSetAutoLoggingID(surfaceInfo.element),
   mountedDuration |-> MountedDuration(surfaceInfo.removeTime, surfaceInfo.addTime),
   mountEvent |-> NoEvent] @@ surfaceInfo

UnmountEventData(surfaceInfo, index) ==
  [event |-> "unmount_component",
   eventTimestamp |-> surfaceInfo.removeTime,
   eventIndex |-> index,
   autoLoggingID |-> getOrSetAutoLoggingID(surfaceInfo.element),
   mountedDuration |-> MountedDuration(surfaceInfo.removeTime, surfaceInfo.addTime),
   mountEvent |-> surfaceInfo.mountEvent] @@ surfaceInfo

EmitResult(heap, index, log, info, thrown) ==
  [heap |-> heap, index |-> index, log |-> log, info |-> info, thrown |-> thrown]

\* emitMutationEvent: the metadata heap, the index generator, the channel log
\* and the record after the call, and what was thrown (Null: it returned).
\* A reference to an emitted event is its position in the channel log.
emitMutationEvent(action, surfaceInfo, map, heap, index, log, fault) ==
  LET flowlet == IF action = "added" THEN surfaceInfo.addFlowlet
                 ELSE surfaceInfo.removeFlowlet
      heap1 == IF flowlet = Null THEN heap
               ELSE IF action = "added"
                 THEN [heap EXCEPT ![surfaceInfo.metadata].add_flowlet = getFullName(flowlet)]
                 ELSE [heap EXCEPT ![surfaceInfo.metadata].remove_flowlet = getFullName(flowlet)]
      data == IF action = "added"
              THEN MountEventData(surfaceInfo, getNextEventIndex(index))
              ELSE UnmountEventData(surfaceInfo, getNextEventIndex(index))
      info1 == IF action = "added"
               THEN [surfaceInfo EXCEPT !.mountEvent = Len(log) + 1]
               ELSE surfaceInfo
      map1 == IF action = "added" THEN MapSet(map, surfaceInfo.surface, info1) ELSE map
  IN IF action = "removed" /\ (surfaceInfo.mountEvent = NoEvent \/ surfaceInfo.removeTime = NoTime)
       THEN EmitResult(heap, index, log, surfaceInfo, "assert")
     ELSE IF flowlet # Null /\ fault = "getFullName"
       THEN EmitResult(heap, index, log, surfaceInfo, fault)
     ELSE IF fault = "getNextEventIndex"
       THEN EmitResult(heap1, index, log, surfaceInfo, fault)
     ELSE IF fault = "getOrSetAutoLoggingID"
       THEN EmitResult(heap1, getNextEventIndex(index), log, surfaceInfo, fault)
     ELSE EmitResult(heap1, getNextEventIndex(index), Append(log, Emission(data, map1, heap1)),
                     info1, Null)

Call(event, action, currFlowlet, thrown) ==
  [action |-> action, surface |-> event.surface, element |-> event.element,
   metadata |-> event.metadata, currFlowlet |-> currFlowlet, thrown |-> thrown]

Ignore(event, action, currFlowlet) ==
  /\ lastCall' = Call(event, action, currFlowlet, Null)
  /\ UNCHANGED <<activeSurfaces, emitted, metaHeap, eventIndex>>

\* Mutant: a promotion also writes the name of the new flowlet to the metadata.
ProcessAdded_PromotionRenames(event, timestamp, currFlowlet, faults) ==
  LET surface == event.surface
      element == event.element
      info == MapGet(activeSurfaces, surface)
  IN IF ~HasOpenRecord(activeSurfaces, surface) THEN
       \E fault \in faults :
       IF fault = "getElementTextEvent" THEN
         /\ lastCall' = Call(event, "added", currFlowlet, fault)
         /\ UNCHANGED <<activeSurfaces, emitted, metaHeap, eventIndex>>
       ELSE
         LET new == NewSurfaceInfo(event, timestamp, currFlowlet, cacheElementReactInfo)
             map1 == MapSet(activeSurfaces, surface, new)
             r == emitMutationEvent("added", new, map1, metaHeap, eventIndex, emitted, fault)
         IN /\ activeSurfaces' = MapSet(map1, surface, r.info)
            /\ emitted' = r.log
            /\ metaHeap' = r.heap
            /\ eventIndex' = r.index
            /\ lastCall' = Call(event, "added", currFlowlet, r.thrown)
     ELSE IF IsAncestorPromotion(info, element) THEN
       /\ activeSurfaces' =
            MapSet(activeSurfaces, surface, Promote(info, element, timestamp, currFlowlet))
       /\ metaHeap' =
            IF currFlowlet = Null THEN metaHeap
            ELSE [metaHeap EXCEPT ![info.metadata].add_flowlet = getFullName(currFlowlet)]
       /\ lastCall' = Call(event, "added", currFlowlet, Null)
       /\ UNCHANGED <<emitted, eventIndex>>
     ELSE Ignore(event, "added", currFlowlet)

\* Mutant: the mount event is the record itself, so a promotion shows in it.
ProcessAdded_SharedMountEvent(event, timestamp, currFlowlet, faults) ==
  LET surface == event.surface
      element == event.element
      info == MapGet(activeSurfaces, surface)
  IN IF ~HasOpenRecord(activeSurfaces, surface) THEN
       \E fault \in faults :
       IF fault = "getElementTextEvent" THEN
         /\ lastCall' = Call(event, "added", currFlowlet, fault)
         /\ UNCHANGED <<activeSurfaces, emitted, metaHeap, eventIndex>>
       ELSE
         LET new == NewSurfaceInfo(event, timestamp, currFlowlet, cacheElementReactInfo)
             map1 == MapSet(activeSurfaces, surface, new)
             r == emitMutationEvent("added", new, map1, metaHeap, eventIndex, emitted, fault)
         IN /\ activeSurfaces' = MapSet(map1, surface, r.info)
            /\ emitted' = r.log
            /\ metaHeap' = r.heap
            /\ eventIndex' = r.index
            /\ lastCall' = Call(event, "added", currFlowlet, r.thrown)
     ELSE IF IsAncestorPromotion(info, element) THEN
       /\ activeSurfaces' =
            MapSet(activeSurfaces, surface, Promote(info, element, timestamp, currFlowlet))
       /\ emitted' =
            IF info.mountEvent = NoEvent THEN emitted
            ELSE [emitted EXCEPT ![info.mountEvent].data.element = element,
                                 ![info.mountEvent].data.addFlowlet = currFlowlet,
                                 ![info.mountEvent].data.addTime = timestamp]
       /\ lastCall' = Call(event, "added", currFlowlet, Null)
       /\ UNCHANGED <<metaHeap, eventIndex>>
     ELSE Ignore(event, "added", currFlowlet)

\* faults: the collaborators that may throw while this call runs.
ProcessAdded(event, timestamp, currFlowlet, faults) ==
  LET surface == event.surface
      element == event.element
      info == MapGet(activeSurfaces, surface)
  IN IF ~HasOpenRecord(activeSurfaces, surface) THEN
       \E fault \in faults :
       IF fault = "getElementTextEvent" THEN
         /\ lastCall' = Call(event, "added", currFlowlet, fault)
         /\ UNCHANGED <<activeSurfaces, emitted, metaHeap, eventIndex>>
       ELSE
         LET new == NewSurfaceInfo(event, timestamp, currFlowlet, cacheElementReactInfo)
             map1 == MapSet(activeSurfaces, surface, new)
             r == emitMutationEvent("added", new, map1, metaHeap, eventIndex, emitted, fault)
         IN /\ activeSurfaces' = MapSet(map1, surface, r.info)
            /\ emitted' = r.log
            /\ metaHeap' = r.heap
            /\ eventIndex' = r.index
            /\ lastCall' = Call(event, "added", currFlowlet, r.thrown)
     ELSE IF IsAncestorPromotion(info, element) THEN
       /\ activeSurfaces' =
            MapSet(activeSurfaces, surface, Promote(info, element, timestamp, currFlowlet))
       /\ lastCall' = Call(event, "added", currFlowlet, Null)
       /\ UNCHANGED <<emitted, metaHeap, eventIndex>>
     ELSE Ignore(event, "added", currFlowlet)

\* Mutant: the closed record takes the metadata object of the 'removed'.
ProcessRemoved_OwnMetadata(event, timestamp, currFlowlet, faults) ==
  LET surface == event.surface
      element == event.element
      info == MapGet(activeSurfaces, surface)
  IN IF RemoveMatches(activeSurfaces, surface, element) THEN
       \E fault \in faults :
       LET closed == [StampRemove(info, timestamp, currFlowlet)
                        EXCEPT !.metadata = event.metadata]
           map1 == CloseRecord(activeSurfaces, surface)
           r == emitMutationEvent("removed", closed, map1, metaHeap, eventIndex, emitted, fault)
       IN /\ activeSurfaces' = map1
          /\ emitted' = r.log
          /\ metaHeap' = r.heap
          /\ eventIndex' = r.index
          /\ lastCall' = Call(event, "removed", currFlowlet, r.thrown)
     ELSE Ignore(event, "removed", currFlowlet)

ProcessRemoved(event, timestamp, currFlowlet, faults) ==
  LET surface == event.surface
      element == event.element
      info == MapGet(activeSurfaces, surface)
  IN IF RemoveMatches(activeSurfaces, surface, element) THEN
       \E fault \in faults :
       LET closed == StampRemove(info, timestamp, currFlowlet)
           map1 == CloseRecord(activeSurfaces, surface)
           r == emitMutationEvent("removed", closed, map1, metaHeap, eventIndex, emitted, fault)
       IN /\ activeSurfaces' = map1
          /\ emitted' = r.log
          /\ metaHeap' = r.heap
          /\ eventIndex' = r.index
          /\ lastCall' = Call(event, "removed", currFlowlet, r.thrown)
     ELSE Ignore(event, "removed", currFlowlet)

processNode(event, action, currFlowlet, faults) ==
  /\ UNCHANGED <<now, cacheElementReactInfo>>
  /\ IF ~Trackable(event.element, event.surface) THEN Ignore(event, action, currFlowlet)
     ELSE IF action = "added" THEN ProcessAdded(event, now, currFlowlet, faults)
     ELSE ProcessRemoved(event, now, currFlowlet, faults)

\* An environment of the tracker: the notifications the observer delivers, the
\* tops the causal stack shows, the collaborators that may throw, how long a
\* run is followed, and whether the nodes reported added under a surface and
\* not reported removed since are kept (attached).
Within(env) == Len(emitted) < env.maxEvents /\ eventIndex < MaxIndex

\* channel.addListener('al_surface_mount', ...)
OnSurfaceMount(env) ==
  /\ Within(env)
  /\ \E event \in env.events, currFlowlet \in env.tops :
       /\ processNode(event, "added", currFlowlet, env.faults)
       /\ attached' = IF env.keepsAttached
                         THEN attached \cup {<<event.surface, event.element>>}
                       ELSE attached

\* channel.addListener('al_surface_unmount', ...)
OnSurfaceUnmount(env) ==
  /\ Within(env)
  /\ \E event \in env.events, currFlowlet \in env.tops :
       /\ processNode(event, "removed", currFlowlet, env.faults)
       /\ attached' = IF env.keepsAttached
                         THEN attached \ {<<event.surface, event.element>>}
                       ELSE attached

\* performanceAbsoluteNow moves on between notifications.
Tick ==
  /\ now < MaxTime
  /\ now' = now + 1
  /\ lastCall' = NoCall
  /\ UNCHANGED <<activeSurfaces, emitted, metaHeap, eventIndex, cacheElementReactInfo,
                 attached>>

\* Another consumer of ALEventIndex draws the next index.
OtherConsumerDraws ==
  /\ eventIndex < MaxIndex
  /\ eventIndex' = getNextEventIndex(eventIndex)
  /\ lastCall' = NoCall
  /\ UNCHANGED <<activeSurfaces, emitted, metaHeap, now, cacheElementReactInfo, attached>>

\* A subscriber that received an event edits its metadata object in place.
SubscriberEditsMetadata ==
  /\ \E i \in 1..Len(emitted) :
       LET metadata == emitted[i].data.metadata
       IN /\ metaHeap[metadata].note = Null
          /\ metaHeap' = [metaHeap EXCEPT ![metadata].note = "edited"]
  /\ lastCall' = NoCall
  /\ UNCHANGED <<activeSurfaces, emitted, eventIndex, now, cacheElementReactInfo, attached>>

Init ==
  /\ activeSurfaces = {}
  /\ emitted = <<>>
  /\ metaHeap = [m \in MetaIds |->
                   [add_flowlet |-> Null, remove_flowlet |-> Null, note |-> Null]]
  /\ eventIndex = 0
  /\ now = 0
  /\ lastCall = NoCall
  /\ cacheElementReactInfo \in BOOLEAN
  /\ attached = {}

\* Notifications of elements under both surfaces while the clock advances,
\* with collaborators that return and no other consumer of the event index.
Env ==
  [events |-> [element : Elements, surface : Surfaces, metadata : {"M1"}],
   tops |-> {"F1"},
   faults |-> {"none"},
   maxEvents |-> MaxEvents,
   keepsAttached |-> FALSE]

Next == OnSurfaceMount(Env) \/ OnSurfaceUnmount(Env) \/ Tick

Spec == Init /\ [][Next]_vars

\* Both surfaces on the nested nodes at one instant, followed for one more
\* event, with other consumers of the event index.
EnvShared ==
  [events |-> [element : {"N1", "N2"}, surface : Surfaces, metadata : {"M1"}],
   tops |-> {"F1"},
   faults |-> {"none"},
   maxEvents |-> MaxEventsShared,
   keepsAttached |-> FALSE]

NextShared ==
  OnSurfaceMount(EnvShared) \/ OnSurfaceUnmount(EnvShared) \/ OtherConsumerDraws

SpecShared == Init /\ [][NextShared]_vars

\* Every kind of node, with and without a surface, at one instant.
EnvNoise ==
  [events |-> [element : Nodes, surface : {"S1", Null}, metadata : {"M1"}],
   tops |-> {Null, "F1"},
   faults |-> {"none"},
   maxEvents |-> MaxEvents,
   keepsAttached |-> FALSE]

NextNoise == OnSurfaceMount(EnvNoise) \/ OnSurfaceUnmount(EnvNoise)

SpecNoise == Init /\ [][NextNoise]_vars

\* One surface on the nested nodes at one instant, with collaborators that may
\* throw.
EnvFaulty ==
  [events |-> [element : {"N1", "N2"}, surface : {"S1"}, metadata : {"M1"}],
   tops |-> {"F1"},
   faults |-> Faults,
   maxEvents |-> MaxEvents,
   keepsAttached |-> FALSE]

NextFaulty == OnSurfaceMount(EnvFaulty) \/ OnSurfaceUnmount(EnvFaulty)

SpecFaulty == Init /\ [][NextFaulty]_vars

\* One surface on the nested nodes at one instant, under every top of the
\* causal stack.
EnvFlowlets ==
  [events |-> [element : {"N1", "N2"}, surface : {"S1"}, metadata : {"M1"}],
   tops |-> {Null} \cup Flowlets,
   faults |-> {"none"},
   maxEvents |-> MaxEvents,
   keepsAttached |-> FALSE]

NextFlowlets == OnSurfaceMount(EnvFlowlets) \/ OnSurfaceUnmount(EnvFlowlets)

SpecFlowlets == Init /\ [][NextFlowlets]_vars

\* One surface on the nested nodes at one instant, with notifications that
\* carry either metadata object and a subscriber that edits, in place, the
\* metadata of an event it received.
EnvMetadata ==
  [events |-> [element : {"N1", "N2"}, surface : {"S1"}, metadata : MetaIds],
   tops |-> {"F1"},
   faults |-> {"none"},
   maxEvents |-> MaxEvents,
   keepsAttached |-> FALSE]

NextMetadata ==
  OnSurfaceMount(EnvMetadata) \/ OnSurfaceUnmount(EnvMetadata) \/ SubscriberEditsMetadata

SpecMetadata == Init /\ [][NextMetadata]_vars

\* S1 on the nested nodes and S2 on a node apart while the clock advances,
\* under tops of the causal stack that differ between notifications.
EnvPromotion ==
  [events |-> [element : {"N1", "N2"}, surface : {"S1"}, metadata : {"M1"}]
                \cup [element : {"N3"}, surface : {"S2"}, metadata : {"M1"}],
   tops |-> Flowlets,
   faults |-> {"none"},
   maxEvents |-> MaxEvents,
   keepsAttached |-> FALSE]

NextPromotion == OnSurfaceMount(EnvPromotion) \/ OnSurfaceUnmount(EnvPromotion) \/ Tick

SpecPromotion == Init /\ [][NextPromotion]_vars

\* Both surfaces on every element at one instant, keeping the nodes that were
\* reported added and are still owed a 'removed'.
EnvAttached ==
  [events |-> [element : Elements, surface : Surfaces, metadata : {"M1"}],
   tops |-> {"F1"},
   faults |-> {"none"},
   maxEvents |-> MaxEvents,
   keepsAttached |-> TRUE]

NextAttached == OnSurfaceMount(EnvAttached) \/ OnSurfaceUnmount(EnvAttached)

SpecAttached == Init /\ [][NextAttached]_vars

\* ---------------------------------------------------------------- properties
\* The notification handled by the step, read in the step's second state.
Notified == lastCall'.action \in {"added", "removed"}

Emits == Len(emitted') = Len(emitted) + 1 /\ SubSeq(emitted', 1, Len(emitted)) = emitted

NewEvent == emitted'[Len(emitted')]

Opened(s) == \E e \in activeSurfaces : e.key = s

Record(s) == (CHOOSE e \in activeSurfaces : e.key = s).value

OpenedAfter(s) == \E e \in activeSurfaces' : e.key = s

RecordAfter(s) == (CHOOSE e \in activeSurfaces' : e.key = s).value

IsMount(i) == emitted[i].data.event = "mount_component"

IsUnmount(i) == emitted[i].data.event = "unmount_component"

\* C1: the live map holds at most one record per surface identifier, and the
\* record stored under key s has surface = s.
C1_OneRecordPerSurface ==
  \A e1 \in activeSurfaces :
    /\ e1.value.surface = e1.key
    /\ \A e2 \in activeSurfaces : e1.key = e2.key => e1 = e2

\* Both surfaces are open, one of them after a promotion of its reference node.
C1_Witness ==
  /\ Cardinality(activeSurfaces) = 2
  /\ \E e \in activeSurfaces :
       /\ e.value.mountEvent # NoEvent
       /\ emitted[e.value.mountEvent].data.element # e.value.element

\* C2: a step emits at most one event; a mount event only on an 'added' for a
\* surface with no open record, an unmount event only on a 'removed' whose node
\* is the open record's reference node; an 'added' for a surface that has an
\* open record (a promotion included) emits nothing; and a call of either kind
\* that returns emits exactly one event.
C2_EmitOnlyOnOpenOrClose ==
  [][LET c == lastCall'
         opening == /\ c.action = "added"
                    /\ c.surface \in Surfaces
                    /\ c.element \in Elements
                    /\ ~Opened(c.surface)
         closing == /\ c.action = "removed"
                    /\ c.surface \in Surfaces
                    /\ Opened(c.surface)
                    /\ Record(c.surface).element = c.element
     IN /\ emitted' = emitted \/ Emits
        /\ Emits =>
             \/ opening /\ NewEvent.data.event = "mount_component"
                        /\ NewEvent.data.surface = c.surface
                        /\ NewEvent.data.element = c.element
             \/ closing /\ NewEvent.data.event = "unmount_component"
                        /\ NewEvent.data.surface = c.surface
                        /\ NewEvent.data.element = c.element
        /\ (opening \/ closing) /\ c.thrown = Null => Emits
        /\ c.action = "added" /\ c.surface \in Surfaces /\ Opened(c.surface)
             => emitted' = emitted
    ]_vars

\* A record was promoted to an ancestor and then closed: two events in all.
C2_Witness ==
  /\ Len(emitted) = 2
  /\ IsMount(1) /\ IsUnmount(2)
  /\ emitted[2].data.mountEvent = 1
  /\ emitted[2].data.element # emitted[1].data.element
  /\ lastCall.action = "removed"

\* C3: an unmount event carries mountedDuration = (removeTime - addTime)/1000,
\* removeTime being the time of the closing 'removed' and addTime the record's
\* addTime at close; addTime is set to the time of the first 'added', is set
\* again by each promotion and by nothing else; the duration is never negative.
C3_MountedDuration ==
  [][/\ \A s \in Surfaces :
          /\ ~Opened(s) /\ OpenedAfter(s) => RecordAfter(s).addTime = now
          /\ Opened(s) /\ OpenedAfter(s) =>
               IF RecordAfter(s).element # Record(s).element
               THEN RecordAfter(s).addTime = now
               ELSE RecordAfter(s).addTime = Record(s).addTime
     /\ Emits /\ NewEvent.data.event = "unmount_component" =>
          LET d == NewEvent.data
              r == Record(d.surface)
          IN /\ d.removeTime = now
             /\ d.eventTimestamp = now
             /\ d.addTime = r.addTime
             /\ d.mountedDuration = [num |-> now - r.addTime, den |-> 1000]
             /\ d.mountedDuration.num >= 0
    ]_vars

\* Opened at one time, promoted later, closed later still: the duration counts
\* from the promotion.
C3_Witness ==
  \E i \in 1..Len(emitted) :
    /\ IsUnmount(i)
    /\ emitted[i].data.addTime > emitted[emitted[i].data.mountEvent].data.eventTimestamp
    /\ emitted[i].data.mountedDuration.num > 0

\* C4: the 'removed' path of emitMutationEvent never fails its assertion.
C4_AssertNeverFails == lastCall.thrown # "assert"

\* C5: a 'removed' for a surface with no open record, or whose node is not the
\* record's reference node, changes neither the live map nor its records, emits
\* nothing, writes no metadata, draws no index and throws nothing.
C5_StaleRemoveIsNoOp ==
  [][LET c == lastCall'
     IN c.action = "removed"
        /\ ~(Opened(c.surface) /\ Record(c.surface).element = c.element)
        => /\ UNCHANGED <<activeSurfaces, emitted, metaHeap, eventIndex>>
           /\ c.thrown = Null
    ]_vars

\* A 'removed' naming another node than the reference node of an open record
\* was handled.
C5_Witness ==
  /\ lastCall.action = "removed"
  /\ Opened(lastCall.surface)
  /\ Record(lastCall.surface).element # lastCall.element
  /\ Len(emitted) >= 1

\* C6: every emission draws exactly one index from the shared generator, and
\* the index of the new event is greater than that of every event emitted
\* before, also when other consumers drew indices in between.
C6_EventIndexIncreasing ==
  [][Emits =>
       /\ eventIndex' = eventIndex + 1
       /\ NewEvent.data.eventIndex = eventIndex'
       /\ \A i \in 1..Len(emitted) :
            emitted[i].data.eventIndex < NewEvent.data.eventIndex
    ]_vars

\* Three events, with an index drawn by another consumer between two of them.
C6_Witness ==
  /\ Len(emitted) >= 3
  /\ \E i \in 1..(Len(emitted) - 1) :
       emitted[i + 1].data.eventIndex > emitted[i].data.eventIndex + 1

\* C7: a record leaves the live map exactly on a 'removed' that names its
\* surface and its reference node; a record enters it only on an 'added' for
\* its surface; and when an unmount event is handed to the channel the record
\* of its surface is already out of the map.
C7_DeletedExactlyOnClose ==
  [][LET c == lastCall'
     IN /\ \A s \in Surfaces :
             /\ (Opened(s) /\ ~OpenedAfter(s))
                  <=> /\ c.action = "removed"
                      /\ c.surface = s
                      /\ Opened(s)
                      /\ Record(s).element = c.element
             /\ ~Opened(s) /\ OpenedAfter(s) => c.action = "added" /\ c.surface = s
        /\ Emits /\ NewEvent.data.event = "unmount_component" =>
             /\ NewEvent.data.surface \notin NewEvent.mapKeys
             /\ ~OpenedAfter(NewEvent.data.surface)
    ]_vars

\* One surface was closed while the other stays open.
C7_Witness ==
  /\ Len(emitted) = 3
  /\ IsUnmount(3)
  /\ ~Opened(emitted[3].data.surface)
  /\ emitted[3].mapKeys # {}
  /\ Cardinality(activeSurfaces) = 1

\* C8: the mountEvent of an unmount event refers to an earlier mount event of
\* the same surface, with a smaller event index, and no mount event of that
\* surface was emitted between the two.
C8_UnmountEmbedsItsMount ==
  \A i \in 1..Len(emitted) :
    IsUnmount(i) =>
      LET m == emitted[i].data.mountEvent
      IN /\ m \in 1..(i - 1)
         /\ IsMount(m)
         /\ emitted[m].data.surface = emitted[i].data.surface
         /\ emitted[m].data.eventIndex < emitted[i].data.eventIndex
         /\ \A k \in (m + 1)..(i - 1) :
              ~(IsMount(k) /\ emitted[k].data.surface = emitted[i].data.surface)

\* A surface was opened, closed, opened again and closed again: the second
\* unmount event embeds the second mount event.
C8_Witness ==
  /\ Len(emitted) = 4
  /\ IsMount(1) /\ IsUnmount(2) /\ IsMount(3) /\ IsUnmount(4)
  /\ emitted[1].data.surface = emitted[4].data.surface
  /\ emitted[4].data.mountEvent = 3

\* C9: the reference node of an open record changes only on an 'added' for
\* its surface, to the node of that notification, which is another node than
\* the old reference node and contains it (so the old one does not contain it).
C9_ReferenceNodeOnlyPromoted ==
  [][\A s \in Surfaces :
       Opened(s) /\ OpenedAfter(s) /\ RecordAfter(s).element # Record(s).element =>
         LET c == lastCall'
         IN /\ c.action = "added"
            /\ c.surface = s
            /\ RecordAfter(s).element = c.element
            /\ Contains(c.element, Record(s).element)
            /\ ~Contains(Record(s).element, c.element)
    ]_vars

\* A record opened on N2 now has the containing N1 as its reference node.
C9_Witness ==
  \E e \in activeSurfaces :
    /\ e.value.mountEvent # NoEvent
    /\ emitted[e.value.mountEvent].data.element = "N2"
    /\ e.value.element = "N1"
    /\ lastCall.action = "added"

\* C10: a notification whose node is not an HTMLElement, or is a LINK or
\* SCRIPT element, or whose surface is null, changes nothing, emits nothing
\* and throws nothing.
C10_UntrackableDropped ==
  [][LET c == lastCall'
     IN Notified
        /\ (~InstanceofHTMLElement(c.element) \/ LinkOrScript(c.element) \/ c.surface = Null)
        => /\ UNCHANGED <<activeSurfaces, emitted, metaHeap, eventIndex>>
           /\ c.thrown = Null
    ]_vars

\* With a record open on N1, a 'removed' of N1 without a surface was dropped.
C10_Witness ==
  /\ lastCall.action = "removed"
  /\ lastCall.surface = Null
  /\ lastCall.element = "N1"
  /\ Opened("S1")
  /\ Record("S1").element = "N1"

\* C11: an emitted mount event's metadata has add_flowlet = the full name of
\* the top of the causal stack at the opening 'added', an emitted unmount
\* event's metadata has remove_flowlet = the full name of the top at the
\* matching 'removed'; the emission writes no other key, and when the top is
\* null it does not write that key either.
C11_FlowletNameOfOwnNotification ==
  [][LET c == lastCall'
     IN Notified /\ Emits =>
          LET metadata == NewEvent.data.metadata
              key == IF c.action = "added" THEN "add_flowlet" ELSE "remove_flowlet"
              other == IF c.action = "added" THEN "remove_flowlet" ELSE "add_flowlet"
          IN /\ (c.action = "added") = (NewEvent.data.event = "mount_component")
             /\ NewEvent.seen = metaHeap'[metadata]
             /\ IF c.currFlowlet # Null
                  THEN metaHeap'[metadata][key] = getFullName(c.currFlowlet)
                ELSE metaHeap'[metadata][key] = metaHeap[metadata][key]
             /\ metaHeap'[metadata][other] = metaHeap[metadata][other]
             /\ \A m \in MetaIds \ {metadata} : metaHeap'[m] = metaHeap[m]
    ]_vars

\* The surface was opened under F2, closed under F1 and opened again under a
\* null top: the last mount still shows the name written by the first.
C11_Witness ==
  /\ Len(emitted) = 3
  /\ emitted[1].data.event = "mount_component"
  /\ emitted[1].data.addFlowlet = "F2"
  /\ emitted[1].seen.add_flowlet = "/F1/F2"
  /\ emitted[1].seen.remove_flowlet = Null
  /\ emitted[2].data.event = "unmount_component"
  /\ emitted[2].data.removeFlowlet = "F1"
  /\ emitted[2].seen.remove_flowlet = "/F1"
  /\ emitted[3].data.event = "mount_component"
  /\ emitted[3].data.addFlowlet = Null
  /\ emitted[3].seen.add_flowlet = "/F1/F2"

\* C12: the record, the mount event and the unmount event of one open/close
\* refer to one metadata object, the one carried by the opening 'added': the
\* unmount carries the record's object whatever the 'removed' carried, so
\* reading the retained mount event's metadata after the unmount shows what
\* the unmount's shows, an edit made in place between the emissions included.
C12_OneMetadataObject ==
  [][LET c == lastCall'
     IN /\ c.action = "added" /\ Emits =>
              /\ NewEvent.data.metadata = c.metadata
              /\ RecordAfter(c.surface).metadata = c.metadata
        /\ c.action = "removed" /\ Emits =>
              /\ NewEvent.data.metadata = Record(c.surface).metadata
              /\ NewEvent.data.metadata = emitted[NewEvent.data.mountEvent].data.metadata
        /\ \A e \in activeSurfaces' :
              e.value.mountEvent # NoEvent =>
                e.value.metadata = emitted'[e.value.mountEvent].data.metadata
        /\ \A i \in 1..Len(emitted') :
              LET d == emitted'[i].data
              IN d.event = "unmount_component" =>
                   metaHeap'[emitted'[d.mountEvent].data.metadata] = metaHeap'[d.metadata]
    ]_vars

\* The surface was opened with M1, a subscriber edited M1, and a 'removed' that
\* carried M2 closed it: the unmount saw the edit the mount had not seen, and
\* the mount event's metadata now shows the edit and the name written last.
C12_Witness ==
  /\ Len(emitted) = 2
  /\ emitted[1].data.event = "mount_component"
  /\ emitted[1].data.metadata = "M1"
  /\ emitted[1].seen.note = Null
  /\ emitted[2].data.event = "unmount_component"
  /\ emitted[2].seen.note = "edited"
  /\ lastCall.action = "removed"
  /\ lastCall.metadata = "M2"
  /\ metaHeap[emitted[1].data.metadata].note = "edited"
  /\ metaHeap[emitted[1].data.metadata].remove_flowlet = "/F1"
  /\ metaHeap[emitted[1].data.metadata].add_flowlet = "/F1"

\* C13: an 'added' for an open surface whose node properly contains the
\* reference node changes exactly three fields of that record (the reference
\* node becomes the node, addFlowlet the top of the causal stack, addTime the
\* timestamp of the call) and nothing else: the record's other fields, the keys
\* of the live map, the other records, the channel, the metadata objects and
\* the event index stay as they were.
C13_PromotionChangesThreeFields ==
  [][LET c == lastCall'
     IN c.action = "added" /\ Opened(c.surface)
        /\ c.element # Record(c.surface).element
        /\ Contains(c.element, Record(c.surface).element)
        => /\ OpenedAfter(c.surface)
           /\ RecordAfter(c.surface) =
                [Record(c.surface) EXCEPT !.element = c.element,
                                          !.addFlowlet = c.currFlowlet,
                                          !.addTime = now]
           /\ {e.key : e \in activeSurfaces'} = {e.key : e \in activeSurfaces}
           /\ \A e \in activeSurfaces : e.key # c.surface => e \in activeSurfaces'
           /\ UNCHANGED <<emitted, metaHeap, eventIndex>>
           /\ c.thrown = Null
    ]_vars

\* S1 was opened on N2 and promoted to N1 later and under another top, while
\* the record of S2 stayed open.
C13_Witness ==
  /\ lastCall.action = "added"
  /\ lastCall.surface = "S1"
  /\ lastCall.element = "N1"
  /\ Opened("S1") /\ Opened("S2")
  /\ Record("S1").element = "N1"
  /\ Record("S1").mountEvent # NoEvent
  /\ emitted[Record("S1").mountEvent].data.element = "N2"
  /\ emitted[Record("S1").mountEvent].data.addFlowlet # Record("S1").addFlowlet
  /\ emitted[Record("S1").mountEvent].data.addTime < Record("S1").addTime
  /\ Record("S1").addTime = now
  /\ Record("S1").addFlowlet = lastCall.currFlowlet

\* C14: an 'added' for an open surface whose node is the reference node
\* itself, or does not contain it (a descendant or a node apart), changes
\* nothing: no field of any record, no key of the live map, nothing emitted,
\* no metadata written, no event index drawn.
C14_OtherAddedIsNoOp ==
  [][LET c == lastCall'
     IN c.action = "added" /\ Opened(c.surface)
        /\ (c.element = Record(c.surface).element
            \/ ~Contains(c.element, Record(c.surface).element))
        => /\ UNCHANGED <<activeSurfaces, emitted, metaHeap, eventIndex>>
           /\ c.thrown = Null
    ]_vars

\* After the clock moved on, the reference node of the open record was
\* reported added again and the record still has the time of its opening.
C14_Witness ==
  /\ lastCall.action = "added"
  /\ Opened(lastCall.surface)
  /\ Record(lastCall.surface).element = lastCall.element
  /\ Record(lastCall.surface).mountEvent # NoEvent
  /\ Record(lastCall.surface).addTime < now
  /\ Len(emitted) = 1

\* The events emitted for surface s, in the order of their emission.
EventsOf(s) == SelectSeq(emitted, LAMBDA e : e.data.surface = s)

\* C15: the events emitted for a surface alternate mount, unmount, mount, ...
\* starting with a mount, and the mounts emitted minus the unmounts emitted
\* are 1 when the surface has a record in the live map and 0 when it has none.
C15_MountsAndUnmountsAlternate ==
  \A s \in Surfaces :
    LET events == EventsOf(s)
        mounts == Cardinality({i \in 1..Len(events) : events[i].data.event = "mount_component"})
        unmounts == Cardinality({i \in 1..Len(events) : events[i].data.event = "unmount_component"})
    IN /\ \A i \in 1..Len(events) :
            events[i].data.event = IF i % 2 = 1 THEN "mount_component"
                                   ELSE "unmount_component"
       /\ mounts - unmounts = IF Opened(s) THEN 1 ELSE 0

C17_MountEventIsFirstOpenSnapshot ==
  [][LET c == lastCall'
     IN /\ Len(emitted') >= Len(emitted)
        /\ SubSeq(emitted', 1, Len(emitted)) = emitted
        /\ c.action = "added" /\ Emits =>
             /\ NewEvent.data.element = c.element
             /\ NewEvent.data.eventTimestamp = now
             /\ NewEvent.data.addTime = now
             /\ NewEvent.data.addFlowlet = c.currFlowlet
        /\ c.action = "added" /\ Opened(c.surface) /\ OpenedAfter(c.surface)
           /\ RecordAfter(c.surface) # Record(c.surface) =>
             /\ RecordAfter(c.surface).mountEvent = Record(c.surface).mountEvent
             /\ RecordAfter(c.surface).element = c.element
             /\ RecordAfter(c.surface).mountEvent # NoEvent =>
                  RecordAfter(c.surface).element #
                    emitted'[RecordAfter(c.surface).mountEvent].data.element
        /\ c.action = "removed" /\ Emits =>
             LET d == NewEvent.data
                 info == Record(c.surface)
             IN /\ d.element = info.element
                /\ d.addTime = info.addTime
                /\ d.addFlowlet = info.addFlowlet
                /\ d.mountEvent = info.mountEvent
                /\ d.mountedDuration = [num |-> now - info.addTime, den |-> 1000]
                /\ emitted[d.mountEvent].data.eventTimestamp <= d.addTime
                /\ d.element = emitted[d.mountEvent].data.element =>
                     /\ d.addTime = emitted[d.mountEvent].data.eventTimestamp
                     /\ d.addFlowlet = emitted[d.mountEvent].data.addFlowlet
    ]_vars

\* S1 was opened on N2 at time 0 under F1, promoted to N1 at time 1 under F2
\* and closed at time 2: the embedded mount event is the one of the opening
\* and the duration counts from the promotion.
C17_Witness ==
  /\ Len(emitted) = 2
  /\ emitted[1].data.event = "mount_component"
  /\ emitted[1].data.element = "N2"
  /\ emitted[1].data.eventTimestamp = 0
  /\ emitted[1].data.addFlowlet = "F1"
  /\ emitted[2].data.event = "unmount_component"
  /\ emitted[2].data.mountEvent = 1
  /\ emitted[2].data.element = "N1"
  /\ emitted[2].data.addTime = 1
  /\ emitted[2].data.addFlowlet = "F2"
  /\ emitted[2].data.removeTime = 2
  /\ emitted[2].data.mountedDuration = [num |-> 1, den |-> 1000]

\* C18 as claimed: in every emitted event with a non-null addFlowlet, the
\* event's metadata, as emitted, has add_flowlet = the full name of that
\* addFlowlet, an unmount event emitted after a promotion included.
C18_AddFlowletNameInEveryEvent ==
  \A i \in 1..Len(emitted) :
    emitted[i].data.addFlowlet # Null =>
      emitted[i].seen.add_flowlet = getFullName(emitted[i].data.addFlowlet)

\* C18 amended: a mount event with a non-null addFlowlet is emitted with
\* metadata.add_flowlet = the full name of its addFlowlet; only the call that
\* opens a record writes add_flowlet, neither a promotion nor a close does, so
\* an unmount event's metadata shows the add_flowlet its metadata object held
\* before the close.
C18_AddFlowletNameWrittenAtMount ==
  [][LET c == lastCall'
     IN /\ c.action = "added" /\ Emits /\ NewEvent.data.addFlowlet # Null =>
             NewEvent.seen.add_flowlet = getFullName(NewEvent.data.addFlowlet)
        /\ Notified /\ ~(c.action = "added" /\ ~Opened(c.surface)) =>
             \A m \in MetaIds : metaHeap'[m].add_flowlet = metaHeap[m].add_flowlet
        /\ c.action = "removed" /\ Emits =>
             NewEvent.seen.add_flowlet = metaHeap[NewEvent.data.metadata].add_flowlet
    ]_vars

\* S1 was opened on N2 under F1, promoted to N1 under F2 and closed: the
\* unmount event has addFlowlet F2 and its metadata names F1.
C18_Witness ==
  /\ Len(emitted) = 2
  /\ emitted[1].data.event = "mount_component"
  /\ emitted[1].data.addFlowlet = "F1"
  /\ emitted[1].seen.add_flowlet = "/F1"
  /\ emitted[2].data.event = "unmount_component"
  /\ emitted[2].data.mountEvent = 1
  /\ emitted[2].data.element # emitted[1].data.element
  /\ emitted[2].data.addFlowlet = "F2"
  /\ emitted[2].seen.add_flowlet = "/F1"

\* C19: when a collaborator throws while an 'added' for a surface without a
\* record is handled, the call throws to its caller and leaves no record with
\* a null mountEvent in the live map.
C19_NoHalfOpenedRecord ==
  [][LET c == lastCall'
     IN c.action = "added" /\ ~Opened(c.surface) /\ c.thrown # Null
        => /\ c.thrown \in Faults
           /\ \A e \in activeSurfaces' : e.value.mountEvent # NoEvent
    ]_vars

====
